---- MODULE Spec2Model ----
(***************************************************************************)
(* A model of the controllers of the blogging backend: the article         *)
(* like/dislike operations, article create/update/view, user sign-up and   *)
(* the password-reset flow.  Every awaited ORM or helper call of a handler *)
(* is one step of that handler; a request served alone runs its steps to   *)
(* completion in one action, concurrent requests interleave their steps.   *)
(***************************************************************************)
EXTENDS Integers, Sequences, FiniteSets, TLC

VARIABLES Like, Dislike, Article, ArticleTags, User, Session, ResetPassword,
          clock, mail, threads

vars == <<Like, Dislike, Article, ArticleTags, User, Session, ResetPassword,
          clock, mail, threads>>

(***************************************************************************)
(* Bounds                                                                  *)
(***************************************************************************)
\* number of user ids that send like/dislike requests
NUsers == 2

UserIds == 1..NUsers

\* slugs a request may name; "a1" and "a2" are the slugs of seeded articles
Slugs == {"a1", "a2", "a3"}

\* the last second of the clock that stamps tokens
MaxClock == 1

\* what sign-up and password requests carry
Emails == {"ann@x.io", "bob@x.io"}

UserNames == {"ann", "bob"}

Passwords == {"pw1", "pw2"}

\* requests in flight at once, in the specifications that interleave requests
NProcs == 3

Procs == 1..NProcs

(***************************************************************************)
(* The database as a value: one field per table.                           *)
(*   Like, Dislike : [<<userId, contentId>> -> number of rows]  (no unique *)
(*                   constraint: a pair may hold several rows)             *)
(*   Article       : sequence of rows, the row's id is its index           *)
(*   User, Session : sequences of rows, the row's id is its index          *)
(*   ArticleTags   : set of rows <<articleId, tag name>>                     *)
(*   ResetPassword : set of rows [token, userId]                           *)
(*   clock         : the time generateToken stamps a token with            *)
(*   mail          : the reset tokens sendResetPasswordEmail has delivered *)
(***************************************************************************)
DB ==
  [Like |-> Like, Dislike |-> Dislike, Article |-> Article,
   ArticleTags |-> ArticleTags, User |-> User, Session |-> Session,
   ResetPassword |-> ResetPassword, clock |-> clock, mail |-> mail]

Commit(db) ==
  /\ Like' = db.Like
  /\ Dislike' = db.Dislike
  /\ Article' = db.Article
  /\ ArticleTags' = db.ArticleTags
  /\ User' = db.User
  /\ Session' = db.Session
  /\ ResetPassword' = db.ResetPassword
  /\ clock' = db.clock
  /\ mail' = db.mail

ArticleIdsOf(db) == DOMAIN db.Article

\* an Article row with the model's column defaults
ArticleRow(slug, authorId, categoryId, publishedAt, isArchived) ==
  [slug |-> slug, authorId |-> authorId, categoryId |-> categoryId,
   likesCount |-> 0, dislikesCount |-> 0, views |-> 0,
   publishedAt |-> publishedAt, isArchived |-> isArchived]

\* Article.findBySlug: the id of the row with that slug, 0 for null
findBySlug(db, slug) ==
  IF \E i \in ArticleIdsOf(db) : db.Article[i].slug = slug
  THEN CHOOSE i \in ArticleIdsOf(db) : db.Article[i].slug = slug
  ELSE 0

RECURSIVE SumOver(_, _)
SumOver(f, S) ==
  IF S = {} THEN 0
  ELSE LET x == CHOOSE y \in S : TRUE IN f[x] + SumOver(f, S \ {x})

\* a count that forgets the association's foreign key: rows of every article
countRows_anyArticle(table, articleId) == SumOver(table, DOMAIN table)

\* article.countLikes() / article.countDislikes(): rows whose contentId is the article
countRows(table, articleId) ==
  SumOver(table, {k \in DOMAIN table : k[2] = articleId})

\* a destroy whose filter matches no row
destroyRows_none(table, userId, articleId) == table

\* a destroy whose filter forgets userId: every user's row on the article goes
destroyRows_anyUser(table, userId, articleId) ==
  [k \in DOMAIN table |-> IF k[2] = articleId THEN 0 ELSE table[k]]

\* Model.destroy({ where: { userId, contentType: 'article', contentId } })
destroyRows(table, userId, articleId) ==
  [table EXCEPT ![<<userId, articleId>>] = 0]

\* a create that inserts nothing
createRow_none(table, userId, articleId) == table

\* article.createLike({ userId }) / article.createDislike({ userId })
createRow(table, userId, articleId) ==
  [table EXCEPT ![<<userId, articleId>>] = @ + 1]

\* a lookup that never finds the user's earlier row
getRows_none(table, userId, articleId) == 0

\* article.getLikes({ where: { userId } }).length
getRows(table, userId, articleId) == table[<<userId, articleId>>]

(***************************************************************************)
(* A request being handled: its inputs, its position (pc), its locals and  *)
(* the responses written to res so far.                                    *)
(***************************************************************************)
NoToken == [id |-> 0, iat |-> 0]

\* req.body of an article request: keys are the fields the body carries;
\* category and tags are strings (sequences of characters), read only when
\* their key is present
NoBody == [keys |-> {}, category |-> <<>>, tags |-> <<>>, status |-> ""]

\* a local string variable: undefined, or defined with a value
Undefined == [def |-> FALSE, str |-> <<>>]

Idle ==
  [op |-> "idle", pc |-> "done",
   userId |-> 0, slug |-> "", email |-> "", userName |-> "", password |-> "",
   token |-> NoToken, body |-> NoBody,
   article |-> 0, count |-> 0, id |-> 0,
   categoryId |-> 0, tags |-> Undefined, createTags |-> {},
   res |-> <<>>, threw |-> FALSE]

\* a like/dislike request: req.user.id and req.params.slug
NewReq(op, userId, slug) ==
  [Idle EXCEPT !.op = op, !.pc = "start", !.userId = userId, !.slug = slug]

\* serverResponse(res, status, payload): one more response written to res
serverResponse(t, status, message) ==
  [t EXCEPT !.res = Append(@, [status |-> status, message |-> message,
                               article |-> 0])]

\* a response whose payload is an article: articleResponse(res, 200, article)
\* and serverResponse(res, 200, { article })
articleResponse(t, status, article) ==
  [t EXCEPT !.res = Append(@, [status |-> status, message |-> "",
                               article |-> article])]

\* serverError(res): the generic 500
serverError(t) == serverResponse(t, 500, "server error")

\* return: the handler is over
Return(t) == [t EXCEPT !.pc = "done"]

\* what is left of a request once it is over: its frame (locals, body) is gone
Forget(t) ==
  [t EXCEPT !.count = 0, !.body = NoBody, !.categoryId = 0,
            !.tags = Undefined, !.createTags = {}]

Goto(t, pc) == [t EXCEPT !.pc = pc]

Out(db, t) == [db |-> db, t |-> t]

(***************************************************************************)
(* createLikeOrDislike: five awaited calls                                 *)
(***************************************************************************)
createLikeOrDislike(userAction, db, t, after) ==
  LET a == t.article
      u == t.userId
  IN
  CASE t.pc = "destroy" ->
         IF userAction = "like"
         THEN Out([db EXCEPT !.Dislike = destroyRows(@, u, a)], Goto(t, "count1"))
         ELSE Out([db EXCEPT !.Like = destroyRows(@, u, a)], Goto(t, "count1"))
    [] t.pc = "count1" ->
         IF userAction = "like"
         THEN Out(db, [t EXCEPT !.count = countRows(db.Dislike, a), !.pc = "update1"])
         ELSE Out(db, [t EXCEPT !.count = countRows(db.Like, a), !.pc = "update1"])
    [] t.pc = "update1" ->
         IF userAction = "like"
         THEN Out([db EXCEPT !.Article[a].dislikesCount = t.count], Goto(t, "create"))
         ELSE Out([db EXCEPT !.Article[a].likesCount = t.count], Goto(t, "create"))
    [] t.pc = "create" ->
         IF userAction = "like"
         THEN Out([db EXCEPT !.Like = createRow(@, u, a)], Goto(t, "count2"))
         ELSE Out([db EXCEPT !.Dislike = createRow(@, u, a)], Goto(t, "count2"))
    [] t.pc = "count2" ->
         IF userAction = "like"
         THEN Out(db, [t EXCEPT !.count = countRows(db.Like, a), !.pc = "update2"])
         ELSE Out(db, [t EXCEPT !.count = countRows(db.Dislike, a), !.pc = "update2"])
    [] t.pc = "update2" ->
         IF userAction = "like"
         THEN Out([db EXCEPT !.Article[a].likesCount = t.count], Goto(t, after))
         ELSE Out([db EXCEPT !.Article[a].dislikesCount = t.count], Goto(t, after))

\* customArticleResponse: Article.findOne, then the response
customArticleResponse(db, t, status, message) ==
  Out(db, Return(serverResponse(t, status, message)))

\* the steps addLike and addDislike share, up to the table they test
addLikeOrDislike(userAction, db, t) ==
  LET mine == IF userAction = "like" THEN db.Like ELSE db.Dislike
      already == IF userAction = "like"
                 THEN "you have already liked this article"
                 ELSE "you have already disliked this article"
      added == IF userAction = "like"
               THEN "like added successfully"
               ELSE "dislike added successfully"
  IN
  CASE t.pc = "start" ->
         LET a == findBySlug(db, t.slug) IN
         IF a = 0
         THEN Out(db, Return(serverResponse(t, 404, "article not found")))
         ELSE Out(db, [t EXCEPT !.article = a, !.pc = "previous"])
    [] t.pc = "previous" ->
         IF getRows(mine, t.userId, t.article) > 0
         THEN Out(db, Return(serverResponse(t, 200, already)))
         ELSE Out(db, Goto(t, "destroy"))
    [] t.pc = "respond" -> customArticleResponse(db, t, 201, added)
    [] OTHER -> createLikeOrDislike(userAction, db, t, "respond")

addLike(db, t) == addLikeOrDislike("like", db, t)

addDislike(db, t) == addLikeOrDislike("dislike", db, t)

\* the steps removeLike and removeDislike share, up to the table they clear
removeLikeOrDislike(userAction, db, t) ==
  LET a == t.article
  IN
  CASE t.pc = "start" ->
         LET f == findBySlug(db, t.slug) IN
         IF f = 0
         THEN Out(db, Return(serverResponse(t, 404, "article not found")))
         ELSE Out(db, [t EXCEPT !.article = f, !.pc = "destroy"])
    [] t.pc = "destroy" ->
         IF userAction = "like"
         THEN Out([db EXCEPT !.Like = destroyRows(@, t.userId, a)], Goto(t, "count"))
         ELSE Out([db EXCEPT !.Dislike = destroyRows(@, t.userId, a)], Goto(t, "count"))
    [] t.pc = "count" ->
         IF userAction = "like"
         THEN Out(db, [t EXCEPT !.count = countRows(db.Like, a), !.pc = "update"])
         ELSE Out(db, [t EXCEPT !.count = countRows(db.Dislike, a), !.pc = "update"])
    [] t.pc = "update" ->
         IF userAction = "like"
         THEN Out([db EXCEPT !.Article[a].likesCount = t.count], Goto(t, "respond"))
         ELSE Out([db EXCEPT !.Article[a].dislikesCount = t.count], Goto(t, "respond"))
    [] t.pc = "respond" ->
         customArticleResponse(db, t, 200,
           IF userAction = "like" THEN "like removed successfully"
           ELSE "dislike removed successfully")

removeLike(db, t) == removeLikeOrDislike("like", db, t)

removeDislike(db, t) == removeLikeOrDislike("dislike", db, t)

(***************************************************************************)
(* Strings are sequences of characters, so that lower-casing, joining and  *)
(* splitting are computed.                                                 *)
(***************************************************************************)
LowerChar(c) ==
  CASE c = "T" -> "t"
    [] c = "F" -> "f"
    [] c = "O" -> "o"
    [] OTHER -> c

\* String.prototype.toLowerCase
toLowerCase(str) == [i \in DOMAIN str |-> LowerChar(str[i])]

\* how a template or += renders a local: an undefined one reads "undefined"
String(v) ==
  IF v.def THEN v.str ELSE <<"u", "n", "d", "e", "f", "i", "n", "e", "d">>

\* if (v): defined and not the empty string
Truthy(v) == v.def /\ v.str # <<>>

\* tags += `,${category}`
AppendCategory(tags, category) ==
  [def |-> TRUE, str |-> String(tags) \o <<",">> \o category]

\* str.split(',')
RECURSIVE Split(_)
Split(str) ==
  IF \E i \in DOMAIN str : str[i] = ","
  THEN LET i == CHOOSE k \in DOMAIN str :
                  /\ str[k] = ","
                  /\ \A j \in 1..(k - 1) : str[j] # ","
       IN <<SubSeq(str, 1, i - 1)>> \o Split(SubSeq(str, i + 1, Len(str)))
  ELSE <<str>>

(***************************************************************************)
(* Categories and tags                                                     *)
(***************************************************************************)
Other == <<"o", "t", "h", "e", "r">>

\* the Category table: no handler writes it; 'other' is always one of its rows
Category == <<[name |-> <<"t", "e", "c", "h">>], [name |-> Other]>>

\* Category.findOne({ where: { name } }): the id of the row, 0 for null
CategoryFindOne(name) ==
  IF \E i \in DOMAIN Category : Category[i].name = name
  THEN CHOOSE i \in DOMAIN Category : Category[i].name = name
  ELSE 0

\* the most tags an article may be given, and the least characters of a tag
MaxTags == 15

MinTagLen == 2

\* Tags.create(tags): the distinct names of the comma-separated list, or
\* false (ok = FALSE) when they are too many or one of them is too short
Tags_create(tags) ==
  LET list == Split(tags)
      names == {list[i] : i \in DOMAIN list}
  IN IF Cardinality(names) > MaxTags \/ \E n \in names : Len(n) < MinTagLen
     THEN [ok |-> FALSE, tags |-> {}]
     ELSE [ok |-> TRUE, tags |-> names]

\* Tags.associateArticle(articleId, tags): one ArticleTags row per tag
Tags_associateArticle(db, articleId, tags) ==
  [db EXCEPT !.ArticleTags = @ \cup {<<articleId, n>> : n \in tags}]

NoError == [status |-> 0, message |-> ""]

\* a canTag that lets a rejected tag list through
canTag_lenient(tagArray) ==
  IF tagArray.ok /\ tagArray.tags = {}
  THEN [status |-> 400, message |-> "tags should be an array of valid strings"]
  ELSE NoError

\* Articles.canTag: the error to answer with, NoError for undefined
canTag(tagArray) ==
  IF ~ tagArray.ok
  THEN [status |-> 400,
        message |-> "tags cannot be more than 15 and each tag must be more than a character"]
  ELSE IF tagArray.tags = {}
  THEN [status |-> 400, message |-> "tags should be an array of valid strings"]
  ELSE NoError

(***************************************************************************)
(* Articles.createArticle, Articles.update, Articles.viewArticle           *)
(***************************************************************************)
\* let { tags } = body
BodyTags(body) ==
  IF "tags" \in body.keys THEN [def |-> TRUE, str |-> body.tags] ELSE Undefined

\* status === 'draft' || articleBody === undefined ? null : Date.now()
publishedAt(db, body) ==
  IF ("status" \in body.keys /\ body.status = "draft")
     \/ "articleBody" \notin body.keys
  THEN 0
  ELSE db.clock + 1

\* the category is resolved: an unknown one, replaced by 'other', joins the tags
Categorised(t, category, next, noTags) ==
  LET t1 == IF Category[t.categoryId].name = Other /\ category # Other
            THEN [t EXCEPT !.tags = AppendCategory(@, category)]
            ELSE t
  IN Goto(t1, IF Truthy(t1.tags) THEN next ELSE noTags)

createArticle(db, t) ==
  LET category == toLowerCase(t.body.category) IN
  CASE t.pc = "start" ->
         LET t1 == [t EXCEPT !.tags = BodyTags(t.body),
                             !.categoryId = CategoryFindOne(category)]
         IN IF t1.categoryId = 0
            THEN Out(db, Goto(t1, "findOther"))
            ELSE Out(db, Categorised(t1, category, "createTags", "createArticle"))
    [] t.pc = "findOther" ->
         Out(db, Categorised([t EXCEPT !.categoryId = CategoryFindOne(Other)],
                             category, "createTags", "createArticle"))
    [] t.pc = "createTags" ->
         LET tagArray == Tags_create(t.tags.str)
             error == canTag(tagArray)
         IN IF error # NoError
            THEN Out(db, Return(serverResponse(t, error.status, error.message)))
            ELSE Out(db, [t EXCEPT !.createTags = tagArray.tags,
                                   !.pc = "createArticle"])
    [] t.pc = "createArticle" ->
         Out([db EXCEPT !.Article =
                Append(@, ArticleRow(t.slug, t.userId, t.categoryId,
                                     publishedAt(db, t.body), FALSE))],
             [t EXCEPT !.article = Len(db.Article) + 1, !.pc = "associate"])
    [] t.pc = "associate" ->
         Out(Tags_associateArticle(db, t.article, t.createTags),
             Return(articleResponse(t, 200, t.article)))

\* Article.update(values, { where: { slug, authorId } }): the rows it matches
UpdateMatches(db, slug, authorId) ==
  {i \in ArticleIdsOf(db) :
     db.Article[i].slug = slug /\ db.Article[i].authorId = authorId}

update(db, t) ==
  LET category == toLowerCase(t.body.category) IN
  CASE t.pc = "start" ->
         LET t0 == IF t.body.keys = {}
                   THEN serverResponse(t, 422, "request body should not be empty")
                   ELSE t
             a == findBySlug(db, t.slug)
         IN IF a = 0 \/ db.Article[a].isArchived
            THEN Out(db, Return(serverResponse(t0, 404, "article not found")))
            ELSE LET t1 == [t0 EXCEPT !.tags = BodyTags(t.body), !.article = a,
                                      !.categoryId = db.Article[a].categoryId]
                 IN IF "category" \in t.body.keys /\ t.body.category # <<>>
                    THEN Out(db, Goto(t1, "findCategory"))
                    ELSE Out(db, Goto(t1, IF Truthy(t1.tags) THEN "createTags"
                                          ELSE "updateArticle"))
    [] t.pc = "findCategory" ->
         LET t1 == [t EXCEPT !.categoryId = CategoryFindOne(category)]
         IN IF t1.categoryId = 0
            THEN Out(db, Goto(t1, "findOther"))
            ELSE Out(db, Categorised(t1, category, "createTags", "updateArticle"))
    [] t.pc = "findOther" ->
         Out(db, Categorised([t EXCEPT !.categoryId = CategoryFindOne(Other)],
                             category, "createTags", "updateArticle"))
    [] t.pc = "createTags" ->
         LET tagArray == Tags_create(t.tags.str)
             error == canTag(tagArray)
         IN IF error # NoError
            THEN Out(db, Return(serverResponse(t, error.status, error.message)))
            ELSE Out(db, [t EXCEPT !.createTags = tagArray.tags,
                                   !.pc = "associate"])
    [] t.pc = "associate" ->
         Out(Tags_associateArticle(db, t.article, t.createTags),
             Goto(t, "updateArticle"))
    [] t.pc = "updateArticle" ->
         LET updated == UpdateMatches(db, t.slug, t.userId)
             db1 == [db EXCEPT !.Article =
                       [i \in DOMAIN @ |->
                          IF i \in updated
                          THEN [@[i] EXCEPT !.publishedAt = publishedAt(db, t.body),
                                            !.categoryId = t.categoryId]
                          ELSE @[i]]]
         IN IF updated = {}
            THEN Out(db1, Return(serverResponse(t, 403, "article not updated")))
            ELSE Out(db1, Goto(t, "getCategory"))
    [] t.pc = "getCategory" -> Out(db, Goto(t, "getTags"))
    [] t.pc = "getTags" -> Out(db, Return(articleResponse(t, 200, t.article)))

\* a visibility test that forgets the archive flag
unavailable_unpublishedOnly(db, article) ==
  article = 0 \/ db.Article[article].publishedAt = 0

\* !article || article.isArchived || !article.publishedAt
unavailable(db, article) ==
  \/ article = 0
  \/ db.Article[article].isArchived
  \/ db.Article[article].publishedAt = 0

\* Articles.authView: the author sees the article whatever its state
authView(db, t, article) ==
  IF article # 0 /\ t.userId = db.Article[article].authorId
  THEN Out(db, Return(articleResponse(t, 200, article)))
  ELSE IF unavailable(db, article)
  THEN Out(db, Return(serverResponse(t, 404, "article not found")))
  ELSE Out(db, Return(articleResponse(t, 200, article)))

\* Articles.viewArticle; userId = 0 stands for a request without an
\* authorization header, any other for the user verifyToken and
\* getSessionFromToken put in req.user
viewArticle(db, t) ==
  CASE t.pc = "start" ->
         LET article == findBySlug(db, t.slug) IN
         IF t.userId # 0
         THEN authView(db, t, article)
         ELSE IF unavailable(db, article)
         THEN Out(db, Return(serverResponse(t, 404, "article not found")))
         ELSE Out(db, [t EXCEPT !.article = article,
                                !.count = db.Article[article].views,
                                !.pc = "updateViews"])
    [] t.pc = "updateViews" ->
         Out([db EXCEPT !.Article =
                [i \in DOMAIN @ |->
                   IF @[i].slug = t.slug
                   THEN [@[i] EXCEPT !.views = t.count + 1]
                   ELSE @[i]]],
             Return(articleResponse(t, 200, t.article)))

(***************************************************************************)
(* Users: sign-up, password reset, password change                         *)
(***************************************************************************)
UserIdsOf(db) == DOMAIN db.User

\* User.findByEmail / User.findByUsername: the id of the row, 0 for null
findByEmail(db, email) ==
  IF \E i \in UserIdsOf(db) : db.User[i].email = email
  THEN CHOOSE i \in UserIdsOf(db) : db.User[i].email = email
  ELSE 0

findByUsername(db, userName) ==
  IF \E i \in UserIdsOf(db) : db.User[i].userName = userName
  THEN CHOOSE i \in UserIdsOf(db) : db.User[i].userName = userName
  ELSE 0

\* bcrypt.hash(password, 10)
Hash(password) == <<"bcrypt", password>>

\* generateToken({ id }, ttl): a signed token naming the user, stamped with the time
generateToken(db, id) == [id |-> id, iat |-> db.clock]

\* verifyResetPasswordToken(token): the id the token names, 0 when it does not verify
verifyResetPasswordToken(token) == token.id

\* Session.revokeAll(id): every session of the user is made inactive
revokeAll(sessions, id) ==
  [i \in DOMAIN sessions |->
     IF sessions[i].userId = id THEN [sessions[i] EXCEPT !.active = FALSE]
     ELSE sessions[i]]

\* sendResetPasswordEmail({ ...user, token }): the user receives the token
sendResetPasswordEmail(db, token) == [db EXCEPT !.mail = @ \cup {token}]

\* Session.create({ userId, token, ... }): the columns the controllers read
\* back are userId and active
SessionRow(userId) == [userId |-> userId, active |-> TRUE]

UserRow(email, userName, password) ==
  [email |-> email, userName |-> userName, password |-> password,
   verified |-> FALSE]

emailTaken(db, t) == findByEmail(db, t.email) # 0

\* the second check repeats the first: the user name is never looked up
userNameTaken_email(db, t) == findByUsername(db, t.email) # 0

userNameTaken(db, t) == findByUsername(db, t.userName) # 0

\* Users.create
create(db, t) ==
  CASE t.pc = "start" ->
         IF emailTaken(db, t)
         THEN Out(db, Return(serverResponse(t, 409, "email has already been taken")))
         ELSE Out(db, Goto(t, "findByUsername"))
    [] t.pc = "findByUsername" ->
         IF userNameTaken(db, t)
         THEN Out(db, Return(serverResponse(t, 409, "username has already been taken")))
         ELSE Out(db, Goto(t, "hash"))
    [] t.pc = "hash" -> Out(db, Goto(t, "createUser"))
    [] t.pc = "createUser" ->
         Out([db EXCEPT !.User =
                Append(@, UserRow(t.email, t.userName, Hash(t.password)))],
             [t EXCEPT !.id = Len(db.User) + 1, !.pc = "createSession"])
    [] t.pc = "createSession" ->
         Out([db EXCEPT !.Session = Append(@, SessionRow(t.id))],
             Return(serverResponse(t, 201, "")))

\* a create that stores the token under no user
createReset_noUser(rows, token, userId) ==
  rows \cup {[token |-> token, userId |-> 0]}

\* ResetPassword.create({ token, userId: id })
createReset(rows, token, userId) ==
  rows \cup {[token |-> token, userId |-> userId]}

\* Users.requestPasswordResetLink
requestPasswordResetLink(db, t) ==
  CASE t.pc = "start" ->
         LET id == findByEmail(db, t.email) IN
         IF id = 0
         THEN Out(db, Return(serverResponse(t, 404, "email address not found")))
         ELSE Out(db, [t EXCEPT !.id = id, !.token = generateToken(db, id),
                                !.pc = "createReset"])
    [] t.pc = "createReset" ->
         Out([db EXCEPT !.ResetPassword = createReset(@, t.token, t.id)],
             Goto(t, "revokeAll"))
    [] t.pc = "revokeAll" ->
         Out(sendResetPasswordEmail([db EXCEPT !.Session = revokeAll(@, t.id)],
                                    t.token),
             Return(serverResponse(t, 200, "password reset link sent")))

\* Users.resetPassword
resetPassword(db, t) ==
  CASE t.pc = "start" ->
         LET id == verifyResetPasswordToken(t.token) IN
         IF id = 0
         THEN Out(db, Return(serverResponse(t, 401, "link has expired or is invalid")))
         ELSE Out(db, [t EXCEPT !.id = id, !.pc = "findToken"])
    [] t.pc = "findToken" ->
         IF ~ \E r \in db.ResetPassword : r.token = t.token
         THEN Out(db, Return(serverResponse(t, 401, "link has been used")))
         ELSE Out(db, Goto(t, "hash"))
    [] t.pc = "hash" -> Out(db, Goto(t, "updatePassword"))
    [] t.pc = "updatePassword" ->
         Out([db EXCEPT !.User[t.id].password = Hash(t.password)],
             Goto(t, "destroy"))
    [] t.pc = "destroy" ->
         Out([db EXCEPT !.ResetPassword = {r \in @ : r.token # t.token}],
             Return(serverResponse(t, 200, "password reset successful")))

\* Users.changePassword
changePassword(db, t) ==
  CASE t.pc = "start" -> Out(db, Goto(t, "update"))
    [] t.pc = "update" ->
         Out([db EXCEPT !.User[t.userId].password = Hash(t.password)],
             Return(serverResponse(t, 200, "password changed successfully")))

(***************************************************************************)
(* One step of a handler, and what a throwing call does to it.             *)
(***************************************************************************)
Step(db, t) ==
  CASE t.op = "addLike" -> addLike(db, t)
    [] t.op = "addDislike" -> addDislike(db, t)
    [] t.op = "removeLike" -> removeLike(db, t)
    [] t.op = "removeDislike" -> removeDislike(db, t)
    [] t.op = "create" -> create(db, t)
    [] t.op = "requestPasswordResetLink" -> requestPasswordResetLink(db, t)
    [] t.op = "resetPassword" -> resetPassword(db, t)
    [] t.op = "changePassword" -> changePassword(db, t)
    [] t.op = "createArticle" -> createArticle(db, t)
    [] t.op = "update" -> update(db, t)
    [] t.op = "viewArticle" -> viewArticle(db, t)

\* The like/dislike handlers call customArticleResponse without awaiting or
\* returning it: a rejection of its Article.findOne is outside the try block.
\* Users.changePassword has no try block at all.
InTry(t) ==
  /\ ~ (t.op \in {"addLike", "addDislike", "removeLike", "removeDislike"}
        /\ t.pc = "respond")
  /\ t.op # "changePassword"

\* a catch block that swallows the error and answers nothing
Throw_silent(db, t) == Out(db, [Return(t) EXCEPT !.threw = TRUE])

\* the call at t.pc throws: the catch block answers, or nobody does
Throw(db, t) ==
  IF InTry(t)
  THEN Out(db, [Return(serverError(t)) EXCEPT !.threw = TRUE])
  ELSE Out(db, [Return(t) EXCEPT !.threw = TRUE])

\* a request served alone: its steps run to the end; the f-th call throws
\* (f = 0: no call throws)
RECURSIVE Run(_, _, _)
Run(db, t, f) ==
  IF t.pc = "done" THEN Out(db, t)
  ELSE IF f = 1 THEN Throw(db, t)
  ELSE LET r == Step(db, t) IN Run(r.db, r.t, IF f = 0 THEN 0 ELSE f - 1)

Serve(t, f) ==
  LET r == Run(DB, t, f) IN
  /\ Commit(r.db)
  /\ threads' = [threads EXCEPT ![1] = Forget(r.t)]

(***************************************************************************)
(* Requests served one at a time                                           *)
(***************************************************************************)
LikeOps == {"addLike", "addDislike", "removeLike", "removeDislike"}

\* the awaited calls of each handler, in the order it makes them
Calls(op) ==
  CASE op \in {"addLike", "addDislike"} ->
         <<"start", "previous", "destroy", "count1", "update1", "create",
           "count2", "update2", "respond">>
    [] op \in {"removeLike", "removeDislike"} ->
         <<"start", "destroy", "count", "update", "respond">>
    [] op = "create" ->
         <<"start", "findByUsername", "hash", "createUser", "createSession">>
    [] op = "requestPasswordResetLink" ->
         <<"start", "createReset", "revokeAll">>
    [] op = "resetPassword" ->
         <<"start", "findToken", "hash", "updatePassword", "destroy">>
    [] op = "changePassword" -> <<"start", "update">>
    [] op = "createArticle" ->
         <<"start", "findOther", "createTags", "createArticle", "associate">>
    [] op = "update" ->
         <<"start", "findCategory", "findOther", "createTags", "associate",
           "updateArticle", "getCategory", "getTags">>
    [] op = "viewArticle" -> <<"start", "updateViews">>

\* which call of a request throws: none (0), or with faults any one of them
FailPoints(op, faulty) == IF faulty THEN 0..Len(Calls(op)) ELSE {0}

AddLike(faulty) ==
  \E u \in UserIds, s \in Slugs, f \in FailPoints("addLike", faulty) :
    Serve(NewReq("addLike", u, s), f)

AddDislike(faulty) ==
  \E u \in UserIds, s \in Slugs, f \in FailPoints("addDislike", faulty) :
    Serve(NewReq("addDislike", u, s), f)

RemoveLike(faulty) ==
  \E u \in UserIds, s \in Slugs, f \in FailPoints("removeLike", faulty) :
    Serve(NewReq("removeLike", u, s), f)

RemoveDislike(faulty) ==
  \E u \in UserIds, s \in Slugs, f \in FailPoints("removeDislike", faulty) :
    Serve(NewReq("removeDislike", u, s), f)

NoRows == [k \in UserIds \X (1..2) |-> 0]

InitTables ==
  /\ Like = NoRows
  /\ Dislike = NoRows
  /\ ArticleTags = {}
  /\ User = <<>>
  /\ Session = <<>>
  /\ ResetPassword = {}
  /\ clock = 0
  /\ mail = {}
  /\ threads = [p \in Procs |-> Idle]

\* two published articles by user 1, nobody has liked or disliked yet
Init ==
  /\ InitTables
  /\ Article = <<ArticleRow("a1", 1, 1, 1, FALSE), ArticleRow("a2", 1, 1, 1, FALSE)>>

Next ==
  \/ AddLike(FALSE)
  \/ AddDislike(FALSE)
  \/ RemoveLike(FALSE)
  \/ RemoveDislike(FALSE)

Spec == Init /\ [][Next]_vars

\* one published article by user 1; the slugs "a2" and "a3" name no article
InitFail ==
  /\ InitTables
  /\ Article = <<ArticleRow("a1", 1, 1, 1, FALSE)>>

\* the same requests, any one call of each may throw
NextFail ==
  \/ AddLike(TRUE)
  \/ AddDislike(TRUE)
  \/ RemoveLike(TRUE)
  \/ RemoveDislike(TRUE)

SpecFail == InitFail /\ [][NextFail]_vars

(***************************************************************************)
(* Sign-up and password requests served one at a time                      *)
(***************************************************************************)
\* time passes
Tick ==
  /\ clock < MaxClock
  /\ clock' = clock + 1
  /\ UNCHANGED <<Like, Dislike, Article, ArticleTags, User, Session,
                 ResetPassword, mail, threads>>

\* the tokens a client can present: one it received by mail, or junk
TokenInputs == {NoToken} \cup mail

NewCreate(email, userName, password) ==
  [Idle EXCEPT !.op = "create", !.pc = "start", !.email = email,
               !.userName = userName, !.password = password]

NewRequestLink(email) ==
  [Idle EXCEPT !.op = "requestPasswordResetLink", !.pc = "start",
               !.email = email]

NewReset(token, password) ==
  [Idle EXCEPT !.op = "resetPassword", !.pc = "start", !.token = token,
               !.password = password]

NewChange(userId, password) ==
  [Idle EXCEPT !.op = "changePassword", !.pc = "start", !.userId = userId,
               !.password = password]

DoCreate(faulty) ==
  \E e \in Emails, n \in UserNames, pw \in Passwords,
     f \in FailPoints("create", faulty) :
    Serve(NewCreate(e, n, pw), f)

DoRequestPasswordResetLink(faulty) ==
  \E e \in Emails, f \in FailPoints("requestPasswordResetLink", faulty) :
    Serve(NewRequestLink(e), f)

DoResetPassword(faulty) ==
  \E tok \in TokenInputs, pw \in Passwords,
     f \in FailPoints("resetPassword", faulty) :
    Serve(NewReset(tok, pw), f)

DoChangePassword(faulty) ==
  \E u \in DOMAIN User, pw \in Passwords,
     f \in FailPoints("changePassword", faulty) :
    Serve(NewChange(u, pw), f)

\* no user has signed up yet
InitUsers ==
  /\ InitTables
  /\ Article = <<>>

\* sign-ups and password requests, one at a time, no call failing (the token
\* clock stands still: SpecUsersFail and SpecReset let it tick)
NextUsers ==
  \/ DoCreate(FALSE)
  \/ DoRequestPasswordResetLink(FALSE)
  \/ DoResetPassword(FALSE)
  \/ DoChangePassword(FALSE)

SpecUsers == InitUsers /\ [][NextUsers]_vars

\* ann and bob have signed up, each with one active session
SignedUp ==
  <<UserRow("ann@x.io", "ann", Hash("pw1")), UserRow("bob@x.io", "bob", Hash("pw1"))>>

InitSignedUp ==
  /\ Like = NoRows
  /\ Dislike = NoRows
  /\ Article = <<>>
  /\ ArticleTags = {}
  /\ User = SignedUp
  /\ Session = <<SessionRow(1), SessionRow(2)>>
  /\ ResetPassword = {}
  /\ clock = 0
  /\ mail = {}
  /\ threads = [p \in Procs |-> Idle]

\* password requests of signed-up users, any one call of each may throw
NextUsersFail ==
  \/ DoRequestPasswordResetLink(TRUE)
  \/ DoResetPassword(TRUE)
  \/ DoChangePassword(TRUE)
  \/ Tick

SpecUsersFail == InitSignedUp /\ [][NextUsersFail]_vars

(***************************************************************************)
(* Password requests in flight together: each process sends one request,   *)
(* the awaited calls of the requests interleave, each call is atomic.      *)
(***************************************************************************)
Begin(p, t) ==
  /\ threads[p].op = "idle"
  /\ threads' = [threads EXCEPT ![p] = t]
  /\ UNCHANGED <<Like, Dislike, Article, ArticleTags, User, Session,
                 ResetPassword, clock, mail>>

StartRequestLink(p) == \E e \in Emails : Begin(p, NewRequestLink(e))

StartReset(p) ==
  \E tok \in TokenInputs, pw \in Passwords : Begin(p, NewReset(tok, pw))

\* the next awaited call of process p's request returns
Advance(p) ==
  /\ threads[p].pc # "done"
  /\ LET r == Step(DB, threads[p]) IN
       /\ Commit(r.db)
       /\ threads' = [threads EXCEPT
            ![p] = IF r.t.pc = "done" THEN Forget(r.t) ELSE r.t]

NextReset ==
  \/ \E p \in Procs : StartRequestLink(p)
  \/ \E p \in Procs : StartReset(p)
  \/ \E p \in Procs : Advance(p)
  \/ Tick

SpecReset == InitSignedUp /\ [][NextReset]_vars

(***************************************************************************)
(* Like/dislike requests in flight together on the article "a1": each      *)
(* process sends one request, the awaited calls interleave, none throws.   *)
(***************************************************************************)
StartLike(p) ==
  \E op \in LikeOps, u \in UserIds : Begin(p, NewReq(op, u, "a1"))

NextLikes ==
  \/ \E p \in Procs : StartLike(p)
  \/ \E p \in Procs : Advance(p)

SpecLikes == InitFail /\ [][NextLikes]_vars

(***************************************************************************)
(* Article requests served one at a time                                   *)
(***************************************************************************)
\* category names a request may carry: a known one in mixed case, 'other'
\* itself, and one the Category table does not hold
CategoryInputs ==
  {<<"T", "e", "c", "h">>, Other, <<"F", "o", "o", "d">>}

Letters ==
  <<"a", "b", "c", "d", "e", "f", "g", "h", "i", "j", "k", "l", "m", "n",
    "o", "p">>

\* the comma-separated list of n distinct two-letter tags
RECURSIVE JoinTags(_)
JoinTags(n) ==
  IF n = 1 THEN <<"t", Letters[1]>>
  ELSE JoinTags(n - 1) \o <<",", "t", Letters[n]>>

\* tag lists a request may carry: one tag, a one-letter tag, the most allowed
TagInputs == {<<"j", "s">>, <<"a">>, JoinTags(MaxTags)}

Given(strings) == {[def |-> TRUE, str |-> x] : x \in strings}

\* what a body says about publishing: a draft, a text to publish, neither
Publishing ==
  {[status |-> "draft", articleBody |-> TRUE],
   [status |-> "", articleBody |-> TRUE],
   [status |-> "", articleBody |-> FALSE]}

\* a body with a title, and the optional fields that are given
MakeBody(category, tags, pub) ==
  [keys |-> {"title"}
            \cup (IF category.def THEN {"category"} ELSE {})
            \cup (IF tags.def THEN {"tags"} ELSE {})
            \cup (IF pub.status # "" THEN {"status"} ELSE {})
            \cup (IF pub.articleBody THEN {"articleBody"} ELSE {}),
   category |-> category.str, tags |-> tags.str, status |-> pub.status]

ArticleBodies(categories) ==
  {MakeBody(c, tg, pub) :
     c \in categories, tg \in {Undefined} \cup Given(TagInputs),
     pub \in Publishing}

CreateBodies == ArticleBodies(Given(CategoryInputs))

UpdateBodies == ArticleBodies({Undefined} \cup Given(CategoryInputs)) \cup {NoBody}

NewArticleReq(op, userId, slug, body) ==
  [NewReq(op, userId, slug) EXCEPT !.body = body]

\* the slug the title of a new article gives it
NewSlug == "a1"

\* POST /articles by a signed-in user; a title whose slug is taken is left out
CreateArticle ==
  /\ findBySlug(DB, NewSlug) = 0
  /\ \E u \in UserIds, body \in CreateBodies :
       Serve(NewArticleReq("createArticle", u, NewSlug, body), 0)

\* PATCH /articles/:slug by a signed-in user
Update ==
  \E u \in UserIds, slug \in Slugs, body \in UpdateBodies :
    Serve(NewArticleReq("update", u, slug, body), 0)

\* one archived article "a2" of user 1; "a1" is yet to be written
InitArticles ==
  /\ InitTables
  /\ Article = <<ArticleRow("a2", 1, 1, 1, TRUE)>>

NextArticles ==
  \/ CreateArticle
  \/ Update

SpecArticles == InitArticles /\ [][NextArticles]_vars

\* the most views of an article that are counted
MaxViews == 2

\* GET /articles/:slug, with or without an authorization header
ViewArticle(faulty) ==
  /\ \A i \in DOMAIN Article : Article[i].views < MaxViews
  /\ \E u \in {0} \cup UserIds, slug \in Slugs,
        f \in FailPoints("viewArticle", faulty) :
       Serve(NewReq("viewArticle", u, slug), f)

\* one article "a1": of any user, archived or not, published or not
InitView ==
  /\ InitTables
  /\ \E author \in UserIds, at \in {0, 1}, isArchived \in BOOLEAN :
       Article = <<ArticleRow("a1", author, 1, at, isArchived)>>

NextView == ViewArticle(TRUE)

SpecView == InitView /\ [][NextView]_vars

(***************************************************************************)
(* Properties of the like/dislike operations                               *)
(***************************************************************************)
\* the request served last, and the article its slug named before it ran
last == threads[1]

Responded(t, status, message) ==
  t.res = <<[status |-> status, message |-> message, article |-> 0]>>

\* the rows of a table that belong to an article, counted from the table itself
RowsOf(table, articleId) ==
  SumOver(table, {k \in DOMAIN table : k[2] = articleId})

\* C1: with requests served one at a time (any call of any of them may throw),
\* every (user, article) pair holds at most one row over Like and Dislike.
C1_AtMostOneRow ==
  \A k \in DOMAIN Like : Like[k] + Dislike[k] <= 1

\* a completed addLike of a user on an article another user dislikes
C1_Witness ==
  /\ last.op = "addLike"
  /\ Responded(last, 201, "like added successfully")
  /\ Like[<<last.userId, last.article>>] = 1
  /\ \E u \in UserIds \ {last.userId} : Dislike[<<u, last.article>>] = 1

\* C2: with requests served one at a time and no call failing, after every
\* request likesCount is the number of Like rows of the article and
\* dislikesCount the number of its Dislike rows.
C2_CountsMatchRows ==
  \A a \in DOMAIN Article :
    /\ Article[a].likesCount = RowsOf(Like, a)
    /\ Article[a].dislikesCount = RowsOf(Dislike, a)

\* an article liked by two users and another article disliked, after a removal
C2_Witness ==
  /\ last.op = "removeDislike"
  /\ Responded(last, 200, "dislike removed successfully")
  /\ \E a \in DOMAIN Article : Article[a].likesCount = 2
  /\ \E a \in DOMAIN Article : Article[a].dislikesCount = 1

\* C3: addLike by a user who already holds a Like on the article answers 200
\* 'you have already liked this article' and changes no row and no count;
\* addDislike by a user who already holds a Dislike likewise.
C3_AlreadyStep ==
  LET t == threads'[1]
      a == findBySlug(DB, t.slug)
  IN
  /\ (t.op = "addLike" /\ a # 0 /\ Like[<<t.userId, a>>] > 0)
       => /\ Responded(t, 200, "you have already liked this article")
          /\ UNCHANGED <<Like, Dislike, Article>>
  /\ (t.op = "addDislike" /\ a # 0 /\ Dislike[<<t.userId, a>>] > 0)
       => /\ Responded(t, 200, "you have already disliked this article")
          /\ UNCHANGED <<Like, Dislike, Article>>

C3_AlreadyLikedChangesNothing == [][C3_AlreadyStep]_vars

\* an addLike answered 'already liked' while the user's Like row is in place
C3_Witness ==
  /\ last.op = "addLike"
  /\ Responded(last, 200, "you have already liked this article")
  /\ Like[<<last.userId, last.article>>] = 1
  /\ Article[last.article].likesCount = 1

\* C4: a completed removeLike by u on an existing article a answers 200, leaves u
\* without a Like on a and likesCount equal to the Like rows left; every other
\* Like row, every Dislike row and every other column are unchanged, and a
\* removeLike by a user without a Like changes nothing.  removeDislike likewise.
C4_RemoveStep ==
  LET t == threads'[1]
      a == findBySlug(DB, t.slug)
      u == t.userId
  IN
  /\ (t.op = "removeLike" /\ a # 0)
       => /\ Responded(t, 200, "like removed successfully")
          /\ Like'[<<u, a>>] = 0
          /\ \A k \in DOMAIN Like : k # <<u, a>> => Like'[k] = Like[k]
          /\ Dislike' = Dislike
          /\ Article' = [Article EXCEPT ![a].likesCount = RowsOf(Like', a)]
          /\ Like[<<u, a>>] = 0 => UNCHANGED <<Like, Dislike, Article>>
  /\ (t.op = "removeDislike" /\ a # 0)
       => /\ Responded(t, 200, "dislike removed successfully")
          /\ Dislike'[<<u, a>>] = 0
          /\ \A k \in DOMAIN Dislike : k # <<u, a>> => Dislike'[k] = Dislike[k]
          /\ Like' = Like
          /\ Article' = [Article EXCEPT ![a].dislikesCount = RowsOf(Dislike', a)]
          /\ Dislike[<<u, a>>] = 0 => UNCHANGED <<Like, Dislike, Article>>

C4_RemoveLikeRecounts == [][C4_RemoveStep]_vars

\* a removeLike that took one of two likes of an article away
C4_Witness ==
  /\ last.op = "removeLike"
  /\ Responded(last, 200, "like removed successfully")
  /\ Like[<<last.userId, last.article>>] = 0
  /\ Article[last.article].likesCount = 1
  /\ \E a \in DOMAIN Article : Article[a].dislikesCount = 1

(***************************************************************************)
(* Properties of the user operations                                       *)
(***************************************************************************)
UniqueUsers ==
  \A i, j \in DOMAIN User :
    i # j => /\ User[i].email # User[j].email
             /\ User[i].userName # User[j].userName

C7_CreateStep ==
  LET t == threads'[1]
      emailHeld == \E i \in DOMAIN User : User[i].email = t.email
      nameHeld == \E i \in DOMAIN User : User[i].userName = t.userName
  IN
  /\ (t.op = "create" /\ emailHeld)
       => /\ Responded(t, 409, "email has already been taken")
          /\ UNCHANGED <<User, Session>>
  /\ (t.op = "create" /\ ~ emailHeld /\ nameHeld)
       => /\ Responded(t, 409, "username has already been taken")
          /\ UNCHANGED <<User, Session>>
  /\ UniqueUsers'

\* C7: Users.create with a taken email answers 409 'email has already been
\* taken', with a fresh email and a taken userName 409 'username has already
\* been taken'; neither creates a User or Session row, and no two users ever
\* share an email or a userName.
C7_DuplicateSignUpRejected == [][C7_CreateStep]_vars

\* a sign-up with a fresh email and the user name of the one user was refused
C7_Witness ==
  /\ last.op = "create"
  /\ Responded(last, 409, "username has already been taken")
  /\ Len(User) = 1
  /\ Len(Session) = 1
  /\ User[1].userName = last.userName
  /\ User[1].email # last.email

\* C8: for every reset token, over all resetPassword requests presenting it, in
\* any interleaving of their calls, at most one answers 200 'password reset
\* successful'.
C8_OneTimeToken ==
  \A p, q \in Procs :
    (/\ p # q
     /\ threads[p].op = "resetPassword"
     /\ threads[q].op = "resetPassword"
     /\ threads[p].token = threads[q].token
     /\ Responded(threads[p], 200, "password reset successful"))
    => ~ Responded(threads[q], 200, "password reset successful")

\* C9: a request during which a call threw is answered exactly once, with the
\* generic 500.
C9_ThrowAnswered500 ==
  \A p \in Procs :
    (threads[p].pc = "done" /\ threads[p].threw)
      => /\ Len(threads[p].res) = 1
         /\ threads[p].res[1].status = 500

(***************************************************************************)
(* Properties of article creation, update and viewing                      *)
(***************************************************************************)
\* the tags a request body carries, as a list
RequestedTags(body) == IF "tags" \in body.keys THEN Split(body.tags) ELSE <<>>

\* the list Tags.create was called with by a finished request (none: <<>>)
HandedTags(t) == IF Truthy(t.tags) THEN Split(t.tags.str) ELSE <<>>

\* the request gets as far as resolving its category and its tags
ReachesTags(t) ==
  \/ t.op = "createArticle"
  \/ /\ t.op = "update"
     /\ \E i \in DOMAIN Article : Article[i].slug = t.slug /\ ~ Article[i].isArchived

\* the article requests that can be sent in the current state
ArticleRequests ==
  {NewArticleReq("createArticle", u, NewSlug, body) :
     u \in IF \E i \in DOMAIN Article : Article[i].slug = NewSlug
           THEN {} ELSE UserIds,
     body \in CreateBodies}
  \cup {NewArticleReq("update", u, slug, body) :
          u \in UserIds, slug \in Slugs, body \in UpdateBodies}

C5_Resolved(t) ==
  LET r == Run(DB, t, 0)
      lower == toLowerCase(t.body.category)
      known == \E i \in DOMAIN Category : Category[i].name = lower
      answered == r.t.res # <<>> /\ r.t.res[1].article # 0
  IN
  /\ known => /\ Category[r.t.categoryId].name = lower
              /\ HandedTags(r.t) = RequestedTags(t.body)
  /\ ~ known => /\ Category[r.t.categoryId].name = Other
                /\ HandedTags(r.t) = RequestedTags(t.body) \o <<lower>>
  /\ answered => r.db.Article[r.t.res[1].article].categoryId = r.t.categoryId

\* C5: a createArticle, or an update that names a category, resolves an
\* unknown category to 'other' and hands tag creation the request's tags
\* followed by the lowercased category name (that name alone when the request
\* has no tags); a known category or 'other' is kept and the tags handed over
\* are the request's tags.
C5_CategoryFallback ==
  \A t \in ArticleRequests :
    (ReachesTags(t) /\ "category" \in t.body.keys) => C5_Resolved(t)

C6_Rejected(t) ==
  LET list == HandedTags(t)
      names == {list[i] : i \in DOMAIN list}
  IN \/ Cardinality(names) > 15
     \/ \E n \in names : Len(n) < 2

C6_Outcome(t) ==
  LET r == Run(DB, t, 0)
      created == {i \in DOMAIN r.db.Article : i \notin DOMAIN Article}
  IN
  /\ (ReachesTags(t) /\ C6_Rejected(r.t))
       => /\ Len(r.t.res) = 1
          /\ r.t.res[1].status = 400
          /\ r.t.res[1].article = 0
          /\ r.db.Article = Article
          /\ r.db.ArticleTags = ArticleTags
  /\ \A i \in created :
       Cardinality({row \in r.db.ArticleTags : row[1] = i}) <= 15

\* C6: a createArticle or update whose tag list tag creation rejects (more
\* than 15 tags, the appended category name included, or a tag of fewer than
\* 2 characters) is answered 400 and writes no Article row and no article-tag
\* row; an article is never created with more than 15 tags.
C6_RejectedTagsWriteNothing == \A t \in ArticleRequests : C6_Outcome(t)

\* a createArticle was just refused for its tags, and no article was written
C6_Witness ==
  /\ last.op = "createArticle"
  /\ Responded(last, 400,
       "tags cannot be more than 15 and each tag must be more than a character")
  /\ Len(Article) = 1
  /\ ArticleTags = {}

C10_ViewStep ==
  LET t == threads'[1]
      found == {i \in DOMAIN Article : Article[i].slug = t.slug}
      hidden(i) == Article[i].isArchived \/ Article[i].publishedAt = 0
      byAuthor == \E i \in found : Article[i].authorId = t.userId
  IN
  t.op = "viewArticle" =>
    /\ \A k \in DOMAIN t.res :
         t.res[k].article # 0
           => /\ t.res[k].article \in found
              /\ hidden(t.res[k].article)
                   => Article[t.res[k].article].authorId = t.userId
    /\ (~ t.threw /\ ~ byAuthor /\ (found = {} \/ \E i \in found : hidden(i)))
         => Responded(t, 404, "article not found")
    /\ (~ t.threw /\ byAuthor)
         => /\ Len(t.res) = 1
            /\ t.res[1].status = 200
            /\ t.res[1].article \in found

\* C10: viewArticle returns an archived or unpublished article to nobody but
\* its author: a request without authorization, or by another user, gets 404
\* 'article not found' for a missing, archived or unpublished article; the
\* author gets 200 with the article whatever its state.
C10_HiddenFromOthers == [][C10_ViewStep]_vars

\* another user asked for an archived, published article and was told 404
C10_Witness ==
  /\ last.op = "viewArticle"
  /\ last.slug = "a1"
  /\ last.userId # 0
  /\ last.userId # Article[1].authorId
  /\ Article[1].isArchived
  /\ Article[1].publishedAt # 0
  /\ Responded(last, 404, "article not found")

(***************************************************************************)
(* Properties of like/dislike requests in flight together                  *)
(***************************************************************************)
\* every request that was sent has completed
AllDone == \A p \in Procs : threads[p].pc = "done"

\* C11: when like/dislike requests run concurrently, each call atomic, then
\* once all have completed every (user, article) pair holds at most one row
\* in total across Like and Dislike.
C11_OneRowWhenConcurrent ==
  AllDone => \A k \in DOMAIN Like : Like[k] + Dislike[k] <= 1

\* the requests in flight come from different users
DifferentUsers ==
  \A p, q \in Procs :
    (p # q /\ threads[p].op # "idle" /\ threads[q].op # "idle")
      => threads[p].userId # threads[q].userId

\* C12: when like/dislike requests by different users on one article run
\* concurrently, each call atomic and none failing, then once all have
\* completed likesCount is the number of Like rows of the article and
\* dislikesCount the number of its Dislike rows.
C12_CountsWhenConcurrent ==
  (AllDone /\ DifferentUsers)
    => \A a \in DOMAIN Article :
         /\ Article[a].likesCount = RowsOf(Like, a)
         /\ Article[a].dislikesCount = RowsOf(Dislike, a)

(***************************************************************************)
(* The like state of a user, request by request                            *)
(***************************************************************************)
\* the request t on article a put its user in the state of holding one row in
\* own and none in opposite; myCount and otherCount are the counter columns
C13_Moved(t, a, own, opposite, myCount, otherCount, message) ==
  LET u == t.userId
      k == <<u, a>>
  IN
  /\ Responded(t, 201, message)
  /\ own'[k] = 1
  /\ opposite'[k] = 0
  /\ \A j \in DOMAIN own : j # k => own'[j] = own[j] /\ opposite'[j] = opposite[j]
  /\ Article'[a][myCount] = Article[a][myCount] + 1
  /\ Article'[a][otherCount] =
       Article[a][otherCount] - (IF opposite[k] > 0 THEN 1 ELSE 0)

C13_AddStep ==
  LET t == threads'[1]
      a == findBySlug(DB, t.slug)
  IN
  /\ (t.op = "addLike" /\ a # 0 /\ Like[<<t.userId, a>>] = 0)
       => C13_Moved(t, a, Like, Dislike, "likesCount", "dislikesCount",
                    "like added successfully")
  /\ (t.op = "addDislike" /\ a # 0 /\ Dislike[<<t.userId, a>>] = 0)
       => C13_Moved(t, a, Dislike, Like, "dislikesCount", "likesCount",
                    "dislike added successfully")

\* C13: a completed addLike by u on an existing article where u holds no Like
\* answers 201 and leaves u with exactly one Like row and no Dislike row;
\* likesCount grows by 1, dislikesCount drops by 1 if u had a dislike and is
\* otherwise unchanged, and no other user's rows change.  addDislike mirrors it.
C13_AddLikeMovesToLiked == [][C13_AddStep]_vars

\* an addLike was answered 201 while the other user keeps a dislike
C13_Witness ==
  /\ last.op = "addLike"
  /\ Responded(last, 201, "like added successfully")
  /\ Like[<<last.userId, last.article>>] = 1
  /\ Dislike[<<last.userId, last.article>>] = 0
  /\ Article[last.article].likesCount = 1
  /\ Article[last.article].dislikesCount = 1

(***************************************************************************)
(* Asking for a password reset link                                        *)
(***************************************************************************)
C14_LinkStep ==
  LET t == threads'[1]
      owners == {i \in DOMAIN User : User[i].email = t.email}
      others == {i \in DOMAIN Session : Session[i].userId \notin owners}
  IN
  t.op = "requestPasswordResetLink" =>
    /\ owners # {}
         => /\ Responded(t, 200, "password reset link sent")
            /\ \E row \in ResetPassword', u \in owners :
                 /\ row.userId = u
                 /\ row.token.id = u
                 /\ row.token \in mail'
            /\ \A i \in DOMAIN Session' :
                 Session'[i].userId \in owners => ~ Session'[i].active
    /\ owners = {}
         => /\ Responded(t, 404, "email address not found")
            /\ UNCHANGED <<ResetPassword, Session>>
    /\ DOMAIN Session' = DOMAIN Session
    /\ \A i \in others : Session'[i] = Session[i]

LikesMatch(a) == Article[a].likesCount = RowsOf(Like, a)

DislikesMatch(a) == Article[a].dislikesCount = RowsOf(Dislike, a)

C16_RepairStep ==
  LET t == threads'[1]
      a == findBySlug(DB, t.slug)
      u == t.userId
      adds == \/ t.op = "addLike" /\ Like[<<u, a>>] = 0
              \/ t.op = "addDislike" /\ Dislike[<<u, a>>] = 0
      likesAfter == Article'[a].likesCount = RowsOf(Like', a)
      dislikesAfter == Article'[a].dislikesCount = RowsOf(Dislike', a)
  IN
  (t.op \in LikeOps /\ a # 0) =>
    /\ (~ t.threw /\ (t.op = "removeLike" \/ adds)) => likesAfter
    /\ (~ t.threw /\ (t.op = "removeDislike" \/ adds)) => dislikesAfter
    /\ (LikesMatch(a) /\ DislikesMatch(a)
        /\ ~ (likesAfter /\ dislikesAfter))
         => t.threw /\ Responded(t, 500, "server error")

\* C16: a like/dislike request that fails mid-sequence is answered 500 and
\* nothing is rolled back, so a counter may differ from its rows; the next
\* completed request on the article that recounts that counter (removeLike,
\* or an addLike/addDislike that is not short-circuited, for likesCount)
\* makes it equal to the number of rows again; likewise for dislikesCount.
C16_DriftRepaired == [][C16_RepairStep]_vars

\* a removeLike has completed: likesCount matches its rows while the drift a
\* failed addDislike left in dislikesCount is still there
C16_Witness ==
  /\ last.op = "removeLike"
  /\ ~ last.threw
  /\ Responded(last, 200, "like removed successfully")
  /\ LikesMatch(1)
  /\ ~ DislikesMatch(1)

(***************************************************************************)
(* Properties of Articles.update                                           *)
(***************************************************************************)
\* the update requests that can be sent in the current state
UpdateRequests == {t \in ArticleRequests : t.op = "update"}

\* the article a slug names, 0 for none
Named(slug) ==
  IF \E i \in DOMAIN Article : Article[i].slug = slug
  THEN CHOOSE i \in DOMAIN Article : Article[i].slug = slug
  ELSE 0

\* C15: an update whose body is empty is rejected: the response is the 422
\* 'request body should not be empty', and the article row and its tag
\* associations are left unchanged.
C15_EmptyBodyRejected ==
  \A t \in UpdateRequests :
    t.body.keys = {} =>
      LET r == Run(DB, t, 0) IN
      /\ r.t.res # <<>>
      /\ r.t.res[1] = [status |-> 422, article |-> 0,
                       message |-> "request body should not be empty"]
      /\ r.db.Article = Article
      /\ r.db.ArticleTags = ArticleTags

\* C17: an update of an article by a user who is not its author is answered
\* 403 'article not updated' (400 when its tags are refused) and leaves the
\* article row, its category and its associated tags as they were.
C17_OnlyAuthorUpdates ==
  \A t \in UpdateRequests :
    LET a == Named(t.slug) IN
    (/\ a # 0
     /\ ~ Article[a].isArchived
     /\ Article[a].authorId # t.userId
     /\ t.body.keys # {})
      => LET r == Run(DB, t, 0) IN
         /\ \/ Responded(r.t, 403, "article not updated")
            \/ Len(r.t.res) = 1 /\ r.t.res[1].status = 400
         /\ r.db.Article = Article
         /\ r.db.ArticleTags = ArticleTags

\* C18: an update by the author of a published article whose body does not
\* set status to 'draft' leaves publishedAt non-null, and the article is
\* still returned to a viewArticle without authorization.
C18_StaysPublished ==
  \A t \in UpdateRequests :
    LET a == Named(t.slug) IN
    (/\ a # 0
     /\ ~ Article[a].isArchived
     /\ Article[a].publishedAt # 0
     /\ Article[a].authorId = t.userId
     /\ t.body.keys # {}
     /\ ~ ("status" \in t.body.keys /\ t.body.status = "draft"))
      => LET r == Run(DB, t, 0)
             v == Run(r.db, NewReq("viewArticle", 0, t.slug), 0)
         IN
         /\ r.db.Article[a].publishedAt # 0
         /\ v.t.res = <<[status |-> 200, message |-> "", article |-> a]>>

====
